---- MODULE Spec2Model ----
(***************************************************************************)
(* TF_Bus: the feed normalizer (utils.py), the geocoder (bods_api.py) and  *)
(* the render pass of the Streamlit script (app.py).                       *)
(*                                                                         *)
(* Python values are tagged records: None, Str(s), Num(n), Obj(attrs).     *)
(* Floats are fixed point: coordinates in hundredths of a degree,          *)
(* distances in hundredths of a kilometre (the code rounds to 2 places).   *)
(* A call that may raise yields [exc |-> <exception name or "none">, ...]. *)
(***************************************************************************)
EXTENDS Integers, Sequences, FiniteSets, TLC

VARIABLES
    acts,         \* the argument list handed to process_activities_to_data
    ss_va,        \* st.session_state.vehicle_activities (Absent: key not set)
    ss_bd,        \* st.session_state.bus_data           (Absent: key not set)
    ss_user_loc,  \* st.session_state.user_loc           (Absent: key not set)
    cache,        \* the st.cache_data entry of get_initial_data
    out           \* what the last operation was given and produced

vars == <<acts, ss_va, ss_bd, ss_user_loc, cache, out>>

---------------------------------------------------------------------------
(* Bounds *)

MaxActivities == 2   \* longest argument list of the normalizer
MaxRows == 2         \* longest feed the filter and sort steps are applied to
MaxFeed == 1         \* longest feed a fetch of the script returns

---------------------------------------------------------------------------
(* Python values *)

None == [t |-> "none"]
Str(s) == [t |-> "str", s |-> s]
Num(n) == [t |-> "num", n |-> n]
Missing == [t |-> "missing"]   \* construction marker: the attribute is not set
Absent == [t |-> "absent"]     \* a session_state key that is not present

\* An object whose attributes are the keys of f not marked Missing.
Obj(f) == [t |-> "obj", a |-> [k \in {x \in DOMAIN f : f[x] # Missing} |-> f[k]]]

NA == Str("N/A")

IsNum(v) == v.t = "num"

\* bool(v)
Truthy(v) ==
    CASE v.t = "none" -> FALSE
      [] v.t = "str" -> v.s # ""
      [] v.t = "num" -> v.n # 0
      [] OTHER -> TRUE

\* a or b
PyOr(a, b) == IF Truthy(a) THEN a ELSE b

hasattr(obj, attr) == obj.t = "obj" /\ attr \in DOMAIN obj.a
getattr(obj, attr) == obj.a[attr]

---------------------------------------------------------------------------
(* utils.py *)

\* haversine rounded to two places, on the coordinates the model uses;
\* the values are those of utils.haversine under round(., 2).
haversine(lat1, lon1, lat2, lon2) ==
    CASE <<lat1, lon1>> = <<5270, -245>> ->
           (CASE <<lat2, lon2>> = <<0, 0>> -> 586441
              [] <<lat2, lon2>> = <<0, -245>> -> 585997
              [] <<lat2, lon2>> = <<0, -240>> -> 585997
              [] <<lat2, lon2>> = <<5268, 0>> -> 16513
              [] <<lat2, lon2>> = <<5268, -245>> -> 222
              [] <<lat2, lon2>> = <<5268, -240>> -> 404
              [] <<lat2, lon2>> = <<5270, 0>> -> 16508
              [] <<lat2, lon2>> = <<5270, -245>> -> 0
              [] <<lat2, lon2>> = <<5270, -240>> -> 337)
      [] <<lat1, lon1>> = <<5269, -245>> ->
           (CASE <<lat2, lon2>> = <<0, 0>> -> 586330
              [] <<lat2, lon2>> = <<0, -245>> -> 585886
              [] <<lat2, lon2>> = <<0, -240>> -> 585886
              [] <<lat2, lon2>> = <<5268, 0>> -> 16514
              [] <<lat2, lon2>> = <<5268, -245>> -> 111
              [] <<lat2, lon2>> = <<5268, -240>> -> 355
              [] <<lat2, lon2>> = <<5270, 0>> -> 16510
              [] <<lat2, lon2>> = <<5270, -245>> -> 111
              [] <<lat2, lon2>> = <<5270, -240>> -> 355)

\* safe_get(obj, attr_path, default); attr_path is the split path.
RECURSIVE safe_get(_, _, _)
safe_get(current, attr_path, default) ==
    IF attr_path = <<>> THEN current
    ELSE IF current = None \/ ~hasattr(current, Head(attr_path)) THEN default
    ELSE safe_get(getattr(current, Head(attr_path)), Tail(attr_path), default)

RowKeys ==
    {"Vehicle Ref", "Line", "Direction", "Operator", "Speed (km/h)", "Bearing",
     "Next Stop", "ETA", "From", "To", "Lat", "Lon", "Distance (km)"}

\* 'Line': safe_get(published_line_name) or safe_get(line_ref) or 'N/A'
LineOf(mvj) ==
    PyOr(PyOr(safe_get(mvj, <<"published_line_name">>, NA),
              safe_get(mvj, <<"line_ref">>, NA)), NA)

\* The dictionary appended for one activity.
BuildRow(activity) ==
    LET mvj == getattr(activity, "monitored_vehicle_journey") IN
    [k \in RowKeys |->
        CASE k = "Vehicle Ref" -> safe_get(mvj, <<"vehicle_ref">>, NA)
          [] k = "Line" -> LineOf(mvj)
          [] k = "Direction" -> safe_get(mvj, <<"direction_ref">>, NA)
          [] k = "Operator" -> safe_get(mvj, <<"operator_ref">>, NA)
          [] k = "Speed (km/h)" -> safe_get(mvj, <<"velocity">>, NA)
          [] k = "Bearing" -> safe_get(mvj, <<"bearing">>, NA)
          [] k = "Next Stop" -> safe_get(mvj, <<"monitored_call", "stop_point_name">>, NA)
          [] k = "ETA" -> safe_get(mvj, <<"monitored_call", "expected_arrival_time">>, NA)
          [] k = "From" -> safe_get(mvj, <<"origin_name">>, NA)
          [] k = "To" -> safe_get(mvj, <<"destination_name">>, NA)
          [] k = "Lat" -> safe_get(mvj, <<"vehicle_location", "latitude">>, Num(0))
          [] k = "Lon" -> safe_get(mvj, <<"vehicle_location", "longitude">>, Num(0))
          [] k = "Distance (km)" -> NA]

\* The local list bus_data when the loop of process_activities_to_data ends.
BusDataLocal(vehicle_activities) ==
    [i \in 1..Len(vehicle_activities) |-> BuildRow(vehicle_activities[i])]

\* process_activities_to_data: the loop builds bus_data; the statement after
\* the nested def iterates bus_data_list, a name bound in no enclosing scope,
\* so the call ends in NameError for every argument and never reaches
\* "return bus_data".
process_activities_to_data(vehicle_activities) ==
    [exc |-> "NameError", ret |-> None]

\* get_bus_details_by_ref: the def is nested in process_activities_to_data
\* and its body is the docstring alone, so a call returns None. The name is
\* bound in no module scope ("from utils import ... get_bus_details_by_ref"
\* in app.py cannot succeed); the model follows the bodies of the functions
\* of app.py with the name standing for this def.
get_bus_details_by_ref(bus_data_list, vehicle_ref) == None


---------------------------------------------------------------------------
(* bods_api.py *)

\* The user locations postcodes.io can answer with: [latitude, longitude].
Loc(lat, lon) == [t |-> "list", lat |-> lat, lon |-> lon]
UserLocs == {Loc(5270, -245), Loc(5269, -245)}

\* What requests.get can do for one lookup.
HttpOutcomes ==
    {[kind |-> "transport_error"], [kind |-> "status", code |-> 404],
     [kind |-> "status", code |-> 500], [kind |-> "malformed_body"]}
    \cup {[kind |-> "result", loc |-> l] : l \in UserLocs}

GeocodeFailed(resp) == resp.kind \in {"transport_error", "status", "malformed_body"}

\* geocode_postcode without its try/except.
geocode_postcode_uncaught(postcode, resp) ==
    CASE resp.kind = "transport_error" -> [exc |-> "ConnectionError", ret |-> None]
      [] resp.kind = "malformed_body" -> [exc |-> "KeyError", ret |-> None]
      [] resp.kind = "status" -> [exc |-> "none", ret |-> None]
      [] resp.kind = "result" -> [exc |-> "none", ret |-> resp.loc]

\* geocode_postcode: a 200 answer gives [latitude, longitude]; another status
\* gives None; whatever is raised on the way (transport, json, key) gives None.
geocode_postcode(postcode, resp) ==
    CASE resp.kind = "result" -> [exc |-> "none", ret |-> resp.loc]
      [] resp.kind = "status" -> [exc |-> "none", ret |-> None]
      [] OTHER -> [exc |-> "none", ret |-> None]

---------------------------------------------------------------------------
(* app.py: get_initial_data *)

\* get_initial_data without its try/except.
get_initial_data_uncaught(feed) ==
    IF feed.exc # "none" THEN [exc |-> feed.exc, va |-> <<>>, bd |-> <<>>, caught |-> "none"]
    ELSE LET p == process_activities_to_data(feed.ret) IN
         IF p.exc # "none" THEN [exc |-> p.exc, va |-> <<>>, bd |-> <<>>, caught |-> "none"]
         ELSE [exc |-> "none", va |-> feed.ret, bd |-> p.ret, caught |-> "none"]

\* The body of get_initial_data on a cache miss; feed is what
\* bods_api.fetch_live_data does (raises, or returns the activity list).
get_initial_data(feed) ==
    IF feed.exc # "none"
    THEN [exc |-> "none", va |-> <<>>, bd |-> <<>>, caught |-> feed.exc]
    ELSE LET p == process_activities_to_data(feed.ret) IN
         IF p.exc # "none"
         THEN [exc |-> "none", va |-> <<>>, bd |-> <<>>, caught |-> p.exc]
         ELSE [exc |-> "none", va |-> feed.ret, bd |-> p.ret, caught |-> "none"]

---------------------------------------------------------------------------
(* app.py: main, steps 3.3 and 3.4 *)

\* The filter condition of step 3.3 with "or" between the two selections.
RetainEither(data, selected_lines, selected_operators) ==
    (selected_lines = {} \/ data["Line"] \in selected_lines)
    \/ (selected_operators = {} \/ data["Operator"] \in selected_operators)

\* The filter condition of step 3.3.
Retain(data, selected_lines, selected_operators) ==
    (selected_lines = {} \/ data["Line"] \in selected_lines)
    /\ (selected_operators = {} \/ data["Operator"] \in selected_operators)

\* Appending data itself: the entry is the base row at position i.
DictNoCopy(data, i) == [ref |-> i, d |-> data]

\* data.copy(): a new dictionary; ref = 0 says it is no row of the base list.
DictCopy(data, i) == [ref |-> 0, d |-> data]

Min(a, b) == IF a < b THEN a ELSE b

\* The loop over zip(vehicle_activities, bus_data): [fa, fbd].
RECURSIVE FilterFrom(_, _, _, _, _)
FilterFrom(i, vehicle_activities, bus_data, selected_lines, selected_operators) ==
    IF i > Min(Len(vehicle_activities), Len(bus_data)) THEN [fa |-> <<>>, fbd |-> <<>>]
    ELSE LET rest == FilterFrom(i + 1, vehicle_activities, bus_data,
                                selected_lines, selected_operators) IN
         IF Retain(bus_data[i], selected_lines, selected_operators)
         THEN [fa |-> <<vehicle_activities[i]>> \o rest.fa,
               fbd |-> <<DictCopy(bus_data[i], i)>> \o rest.fbd]
         ELSE rest

FilterStep(vehicle_activities, bus_data, selected_lines, selected_operators) ==
    FilterFrom(1, vehicle_activities, bus_data, selected_lines, selected_operators)

Key(e) == e.d["Distance (km)"].n

\* Insertion that puts e before the entries of equal distance.
RECURSIVE InsertBeforeEqual(_, _)
InsertBeforeEqual(e, s) ==
    IF s = <<>> THEN <<e>>
    ELSE IF Key(e) <= Key(Head(s)) THEN <<e>> \o s
    ELSE <<Head(s)>> \o InsertBeforeEqual(e, Tail(s))

\* Insertion that keeps e behind the entries of equal distance.
RECURSIVE InsertByDistance(_, _)
InsertByDistance(e, s) ==
    IF s = <<>> THEN <<e>>
    ELSE IF Key(e) < Key(Head(s)) THEN <<e>> \o s
    ELSE <<Head(s)>> \o InsertByDistance(e, Tail(s))

\* filtered_bus_data.sort(key=lambda x: x['Distance (km)']): stable, ascending.
RECURSIVE SortFrom(_, _, _)
SortFrom(i, s, sorted) ==
    IF i > Len(s) THEN sorted ELSE SortFrom(i + 1, s, InsertByDistance(s[i], sorted))

SortByDistance(s) == SortFrom(1, s, <<>>)

Numeric(e) == IsNum(e.d["Lat"]) /\ IsNum(e.d["Lon"])

\* data['Distance (km)'] = round(haversine(user_lat, user_lon, Lat, Lon), 2)
Annotate(e, user_loc) ==
    [e EXCEPT !.d["Distance (km)"] =
        Num(haversine(user_loc.lat, user_loc.lon, e.d["Lat"].n, e.d["Lon"].n))]

\* The rows of the base list after the entries were written: an entry that
\* is a base row (ref > 0) shows its new content in the base list.
WriteThrough(base, entries) ==
    [j \in DOMAIN base |->
        IF \E i \in DOMAIN entries : entries[i].ref = j
        THEN entries[CHOOSE i \in DOMAIN entries : entries[i].ref = j].d
        ELSE base[j]]

\* Step 3.4. The annotation loop raises TypeError at the first entry whose
\* Lat or Lon is no number (haversine subtracts them); the entries before it
\* are already written.
DistanceStep(user_loc, fbd, base) ==
    IF Truthy(user_loc) /\ fbd # <<>>
    THEN IF \E i \in DOMAIN fbd : ~Numeric(fbd[i])
         THEN LET bad == CHOOSE i \in DOMAIN fbd :
                            ~Numeric(fbd[i]) /\ \A j \in 1..(i - 1) : Numeric(fbd[j])
                  done == [i \in 1..(bad - 1) |-> Annotate(fbd[i], user_loc)]
              IN  [exc |-> "TypeError", fbd |-> done \o SubSeq(fbd, bad, Len(fbd)),
                   base |-> WriteThrough(base, done), computed |-> TRUE]
         ELSE LET ann == [i \in DOMAIN fbd |-> Annotate(fbd[i], user_loc)]
              IN  [exc |-> "none", fbd |-> SortByDistance(ann),
                   base |-> WriteThrough(base, ann), computed |-> TRUE]
    ELSE [exc |-> "none", fbd |-> fbd, base |-> base, computed |-> FALSE]

Rows(entries) == [i \in DOMAIN entries |-> entries[i].d]

\* Steps 3.3 and 3.4 together.
Pipeline(vehicle_activities, bus_data, selected_lines, selected_operators, user_loc) ==
    LET f == FilterStep(vehicle_activities, bus_data, selected_lines, selected_operators)
        d == DistanceStep(user_loc, f.fbd, bus_data)
    IN  [exc |-> d.exc, fa |-> f.fa, kept |-> Rows(f.fbd), fbd |-> Rows(d.fbd),
         base |-> d.base, computed |-> d.computed]

\* The multiselect options: the values of a column other than 'N/A'.
Options(bus_data, column) ==
    {bus_data[i][column] : i \in DOMAIN bus_data} \ {NA}


\* sorted(set([...])): TypeError when values of two types must be compared.
UniqueSorted(values) ==
    IF \E v, w \in values : v.t # w.t
    THEN [exc |-> "TypeError", ret |-> {}]
    ELSE [exc |-> "none", ret |-> values]

\* The selectbox of the individual tracker (shown when filtered_bus_data is
\* not empty). Its format_func calls get_bus_details_by_ref(...).get('Line')
\* for every option but ''; the lookup gives None, which has no get.
BusSelection(fbd) ==
    IF fbd # <<>> /\ Options(fbd, "Vehicle Ref") # {}
       /\ get_bus_details_by_ref(fbd, CHOOSE r \in Options(fbd, "Vehicle Ref") : TRUE) = None
    THEN "AttributeError"
    ELSE "none"

---------------------------------------------------------------------------
(* The feed: what bods_client hands over *)

Call(stop, eta) == Obj([stop_point_name |-> stop, expected_arrival_time |-> eta])
Location(lat, lon) == Obj([latitude |-> lat, longitude |-> lon])

\* A journey with every attribute the normalizer reads.
FullJourney ==
    [vehicle_ref |-> Str("V1"), published_line_name |-> Str("4"),
     line_ref |-> Str("L4"), direction_ref |-> Str("outbound"),
     operator_ref |-> Str("ARBB"), velocity |-> Num(30), bearing |-> Num(90),
     monitored_call |-> Call(Str("Station"), Str("12:00")),
     origin_name |-> Str("Wellington"), destination_name |-> Str("Telford"),
     vehicle_location |-> Location(Num(5270), Num(-245))]

Activity(mvj) == Obj([monitored_vehicle_journey |-> mvj])

OptStr(s) == {Missing, None, Str(s)}

\* The argument records of the normalizer: every way the line fields, the
\* monitored call, the location and a scalar field can be set, null or missing.
NormActivities ==
    {Activity(Obj([FullJourney EXCEPT !.published_line_name = p, !.line_ref = l])) :
        p \in OptStr("4"), l \in OptStr("L7")}
    \cup {Activity(Obj([FullJourney EXCEPT !.monitored_call = c])) :
        c \in {Missing, None, Call(Str("Station"), None), Call(Missing, Str("12:00"))}}
    \cup {Activity(Obj([FullJourney EXCEPT !.vehicle_location = v])) :
        v \in {Missing, None, Location(None, Num(-245)), Location(Num(5268), Missing)}}
    \cup {Activity(Obj([FullJourney EXCEPT !.velocity = v, !.vehicle_ref = r])) :
        v \in {Missing, None}, r \in {None, Str("V2")}}
    \cup {Activity(None)}

\* The records a fetched feed is made of.
FeedActivities ==
    {Activity(Obj(FullJourney)),
     Activity(Obj([FullJourney EXCEPT !.vehicle_ref = Str("V2"),
                      !.published_line_name = Str("7"), !.operator_ref = Str("DIAM"),
                      !.vehicle_location = Location(Num(5268), Num(-245))])),
     Activity(Obj([FullJourney EXCEPT !.vehicle_ref = Str("V3"),
                      !.published_line_name = None, !.line_ref = Str("7"),
                      !.vehicle_location = Location(Num(5268), Num(-240))])),
     Activity(Obj([FullJourney EXCEPT !.vehicle_ref = Str("V4"),
                      !.operator_ref = Str("DIAM"), !.monitored_call = Missing,
                      !.vehicle_location = Missing])),
     Activity(Obj([FullJourney EXCEPT !.vehicle_ref = Str("V5"),
                      !.published_line_name = Str("7"),
                      !.vehicle_location = Location(None, Num(-240))]))}

SeqsUpTo(S, n) == UNION {[1..k -> S] : k \in 0..n}

\* bods_api.fetch_live_data: raises, or returns the list of activities.
FeedOutcomes ==
    {[exc |-> "HTTPError", ret |-> None]}
    \cup {[exc |-> "none", ret |-> f] : f \in SeqsUpTo(FeedActivities, MaxFeed)}

Postcodes == {"", "TF1 1AA"}

---------------------------------------------------------------------------
(* The specifications *)

NoSession ==
    /\ ss_va = Absent
    /\ ss_bd = Absent
    /\ ss_user_loc = Absent
    /\ cache = Absent

Init ==
    /\ acts = <<>>
    /\ NoSession
    /\ out = [op |-> "init"]

(* The normalizer, called on any list of records. *)

AddActivity ==
    /\ Len(acts) < MaxActivities
    /\ \E a \in NormActivities : acts' = Append(acts, a)
    /\ out' = [op |-> "init"]
    /\ UNCHANGED <<ss_va, ss_bd, ss_user_loc, cache>>

Normalize ==
    /\ out.op = "init"
    /\ LET r == process_activities_to_data(acts) IN
       out' = [op |-> "normalize", arg |-> acts, exc |-> r.exc, ret |-> r.ret,
               built |-> BusDataLocal(acts)]
    /\ UNCHANGED <<acts, ss_va, ss_bd, ss_user_loc, cache>>

NextNorm == AddActivity \/ Normalize

SpecNorm == Init /\ [][NextNorm]_vars


(* Steps 3.3 and 3.4 of main, the lookup and a second application, on a      *)
(* session that holds a feed of records and the rows the normalizer's loop   *)
(* builds for them.                                                          *)

InitPipe ==
    /\ acts = <<>>
    /\ cache = Absent
    /\ ss_user_loc = None
    /\ \E f \in SeqsUpTo(FeedActivities, MaxRows) :
          ss_va = f /\ ss_bd = BusDataLocal(f)
    /\ out = [op |-> "init"]

\* One pass of steps 3.3 and 3.4 over the stored lists.
PipePass ==
    \E selected_lines \in SUBSET Options(ss_bd, "Line"),
       selected_operators \in SUBSET Options(ss_bd, "Operator"),
       user_loc \in UserLocs \cup {None} :
        LET p == Pipeline(ss_va, ss_bd, selected_lines, selected_operators, user_loc) IN
        /\ ss_user_loc' = user_loc
        /\ ss_bd' = p.base
        /\ out' = [op |-> "pass", selected_lines |-> selected_lines,
                   selected_operators |-> selected_operators, user_loc |-> user_loc,
                   exc |-> p.exc, filtered_activities |-> p.fa, kept |-> p.kept,
                   filtered_bus_data |-> p.fbd, computed |-> p.computed]
        /\ UNCHANGED <<acts, ss_va, cache>>

\* The same steps applied to the lists the last pass produced.
Reapply ==
    /\ out.op = "pass"
    /\ out.exc = "none"
    /\ LET p == Pipeline(out.filtered_activities, out.filtered_bus_data,
                         out.selected_lines, out.selected_operators, out.user_loc) IN
       out' = [op |-> "reapply", user_loc |-> out.user_loc,
               once |-> out.filtered_bus_data, once_activities |-> out.filtered_activities,
               exc |-> p.exc, twice |-> p.fbd, twice_activities |-> p.fa]
    /\ UNCHANGED <<acts, ss_va, ss_bd, ss_user_loc, cache>>

LookupRefs == {Str("V1"), Str("V2"), Str("ABC123")}

\* get_bus_details_by_ref on the rows of the last pass.
Lookup ==
    /\ out.op = "pass"
    /\ out.exc = "none"
    /\ \E vehicle_ref \in LookupRefs :
          out' = [op |-> "lookup", list |-> out.filtered_bus_data,
                  vehicle_ref |-> vehicle_ref,
                  ret |-> get_bus_details_by_ref(out.filtered_bus_data, vehicle_ref)]
    /\ UNCHANGED <<acts, ss_va, ss_bd, ss_user_loc, cache>>

NextPipe == PipePass \/ Reapply \/ Lookup

SpecPipe == InitPipe /\ [][NextPipe]_vars

(* The script: one rerun of main per action. *)

\* get_initial_data behind st.cache_data: the stored pair while the entry
\* lives, the body otherwise (its result is stored unless it raised).
CachedGetInitialData(feed) ==
    IF cache # Absent
    THEN [exc |-> "none", va |-> cache.va, bd |-> cache.bd, caught |-> "none",
          ran |-> FALSE, cache |-> cache]
    ELSE LET r == get_initial_data(feed) IN
         [exc |-> r.exc, va |-> r.va, bd |-> r.bd, caught |-> r.caught, ran |-> TRUE,
          cache |-> IF r.exc = "none" THEN [va |-> r.va, bd |-> r.bd] ELSE cache]

\* A rerun that ends in an unhandled exception after the session was
\* written as far as va, bd, loc.
Aborted(exc, va, bd, loc, c, info) ==
    /\ ss_va' = va
    /\ ss_bd' = bd
    /\ ss_user_loc' = loc
    /\ cache' = c
    /\ out' = [op |-> "render", exc |-> exc, info |-> info,
               filtered_activities |-> <<>>, filtered_bus_data |-> <<>>,
               computed |-> FALSE, map_rendered |-> FALSE]

\* main. refresh: the Refresh button was pressed; feed: what the fetch does if
\* it is made; postcode, resp: the text input and what the lookup's request
\* does. The first run of a session has the widgets at their defaults.
RenderPass(refresh, feed, postcode, resp) ==
    LET first == ss_va = Absent \/ ss_bd = Absent
        fetch == first \/ refresh
        g == CachedGetInitialData(feed)
        c1 == IF fetch THEN g.cache ELSE cache
        va1 == IF fetch THEN g.va ELSE ss_va
        bd1 == IF fetch THEN g.bd ELSE ss_bd
        loc1 == IF first THEN None ELSE ss_user_loc
        lines == UniqueSorted(Options(bd1, "Line"))
        operators == UniqueSorted(Options(bd1, "Operator"))
        vehicle_refs == UniqueSorted(Options(bd1, "Vehicle Ref"))
        sorted_exc == IF lines.exc # "none" THEN lines.exc
                      ELSE IF operators.exc # "none" THEN operators.exc
                      ELSE vehicle_refs.exc
        lookup == postcode # ""
        geo == geocode_postcode(postcode, resp)
        loc2 == IF lookup /\ Truthy(geo.ret) THEN geo.ret ELSE loc1
        loc3 == IF loc2 = Absent THEN None ELSE loc2
        info == [first |-> first, refresh |-> refresh, ran |-> fetch /\ g.ran,
                 feed |-> IF fetch /\ g.ran THEN feed ELSE [exc |-> "none", ret |-> <<>>],
                 caught |-> IF fetch THEN g.caught ELSE "none",
                 lookup |-> lookup, geo |-> geo,
                 lookup_failed |-> lookup /\ GeocodeFailed(resp),
                 loc_before |-> loc1]
    IN
    /\ first => (~refresh /\ postcode = "")
    /\ IF fetch /\ g.exc # "none"
       THEN Aborted(g.exc, ss_va, ss_bd, ss_user_loc, c1, info)
       ELSE IF sorted_exc # "none"
       THEN Aborted(sorted_exc, va1, bd1, loc1, c1, info)
       ELSE IF lookup /\ geo.exc # "none"
       THEN Aborted(geo.exc, va1, bd1, loc1, c1, info)
       ELSE \E selected_lines \in SUBSET lines.ret,
               selected_operators \in SUBSET operators.ret :
            LET p == Pipeline(va1, bd1, selected_lines, selected_operators, loc3)
                refs == UniqueSorted(Options(p.fbd, "Vehicle Ref"))
                sel == BusSelection(p.fbd)
                exc == IF p.exc # "none" THEN p.exc
                       ELSE IF refs.exc # "none" THEN refs.exc
                       ELSE sel
            IN
            /\ ss_va' = va1
            /\ ss_bd' = p.base
            /\ ss_user_loc' = loc3
            /\ cache' = c1
            /\ out' = [op |-> "render", exc |-> exc, info |-> info,
                       filtered_activities |-> p.fa, filtered_bus_data |-> p.fbd,
                       computed |-> p.computed,
                       map_rendered |-> exc = "none" /\ p.fa # <<>>]
    /\ UNCHANGED acts

\* The fetch is made only on a cache miss of a first run or a refresh, the
\* request only for a non-empty postcode: otherwise their outcomes are not drawn.
Rerun ==
    \E refresh \in BOOLEAN, postcode \in Postcodes :
    \E feed \in IF (refresh \/ ss_va = Absent \/ ss_bd = Absent) /\ cache = Absent
                 THEN FeedOutcomes ELSE {[exc |-> "none", ret |-> <<>>]},
       resp \in IF postcode # "" THEN HttpOutcomes ELSE {[kind |-> "status", code |-> 404]} :
        RenderPass(refresh, feed, postcode, resp)

\* The ttl of the cache entry runs out.
CacheExpire ==
    /\ cache # Absent
    /\ cache' = Absent
    /\ UNCHANGED <<acts, ss_va, ss_bd, ss_user_loc, out>>

Next == Rerun \/ CacheExpire

Spec == Init /\ [][Next]_vars


---------------------------------------------------------------------------
(* Claims about the normalizer (SpecNorm) *)

\* The value a record holds at a dotted path, or Missing when a segment is
\* a missing attribute or null.
RECURSIVE ValueAt(_, _)
ValueAt(obj, path) ==
    IF obj = None THEN Missing
    ELSE IF path = <<>> THEN obj
    ELSE IF obj.t # "obj" \/ Head(path) \notin DOMAIN obj.a THEN Missing
    ELSE ValueAt(obj.a[Head(path)], Tail(path))

JourneyOf(activity) == activity.a["monitored_vehicle_journey"]

\* C1: process_activities_to_data returns normally, for every list of records
\* (the empty one too), the list whose row i is the row built from record i.
C1_ReturnsOneRowPerRecord ==
    out.op = "normalize" =>
        /\ out.exc = "none"
        /\ out.ret = [i \in 1..Len(out.arg) |-> BuildRow(out.arg[i])]

\* C2: 'Line' is the published line name when the record has one, else the
\* line reference when it has one, else 'N/A'.
C2_LinePreferenceOrder ==
    out.op = "normalize" =>
        \A i \in 1..Len(out.arg) :
            LET name == ValueAt(JourneyOf(out.arg[i]), <<"published_line_name">>)
                ref == ValueAt(JourneyOf(out.arg[i]), <<"line_ref">>)
            IN  out.built[i]["Line"] =
                    IF name # Missing THEN name ELSE IF ref # Missing THEN ref ELSE NA

FieldPath(k) ==
    CASE k = "Vehicle Ref" -> <<"vehicle_ref">>
      [] k = "Direction" -> <<"direction_ref">>
      [] k = "Operator" -> <<"operator_ref">>
      [] k = "Speed (km/h)" -> <<"velocity">>
      [] k = "Bearing" -> <<"bearing">>
      [] k = "Next Stop" -> <<"monitored_call", "stop_point_name">>
      [] k = "ETA" -> <<"monitored_call", "expected_arrival_time">>
      [] k = "From" -> <<"origin_name">>
      [] k = "To" -> <<"destination_name">>
      [] k = "Lat" -> <<"vehicle_location", "latitude">>
      [] k = "Lon" -> <<"vehicle_location", "longitude">>

\* C3: in every row Lat and Lon are numbers (0.0 when absent) and every other
\* field is the record's value or 'N/A', an absent field being a missing
\* attribute or a null one at any segment of the path.
C3_NumbersAndSentinels ==
    out.op = "normalize" =>
        \A i \in 1..Len(out.arg) :
            LET mvj == JourneyOf(out.arg[i])
                row == out.built[i]
            IN  /\ IsNum(row["Lat"]) /\ IsNum(row["Lon"])
                /\ \A k \in RowKeys \ {"Line", "Distance (km)"} :
                      row[k] = IF ValueAt(mvj, FieldPath(k)) # Missing
                               THEN ValueAt(mvj, FieldPath(k))
                               ELSE IF k \in {"Lat", "Lon"} THEN Num(0) ELSE NA
                /\ (ValueAt(mvj, <<"monitored_call">>) = Missing =>
                      row["Next Stop"] = NA /\ row["ETA"] = NA)

---------------------------------------------------------------------------
(* Claims about steps 3.3 and 3.4 and the lookup (SpecPipe) *)

InSelection(v, selection) == selection = {} \/ v \in selection

\* C4: the filter step retains exactly the rows whose Line is selected (or no
\* line is) and whose Operator is selected (or no operator is), in order; with
\* nothing selected it retains every row unchanged; it retains as many
\* activities as rows.
C4_FilterRetainsIff ==
    out.op = "pass" =>
        /\ out.kept = SelectSeq(ss_bd, LAMBDA row :
                         /\ InSelection(row["Line"], out.selected_lines)
                         /\ InSelection(row["Operator"], out.selected_operators))
        /\ (out.selected_lines = {} /\ out.selected_operators = {} => out.kept = ss_bd)
        /\ Len(out.filtered_activities) = Len(out.kept)
        /\ Len(out.filtered_bus_data) = Len(out.kept)

C4_Witness ==
    /\ out.op = "pass"
    /\ out.selected_lines # {}
    /\ out.selected_operators # {}
    /\ Len(out.kept) = 1
    /\ Len(ss_bd) = 2
    /\ \E i \in 1..2 : /\ ss_bd[i]["Line"] \in out.selected_lines
                       /\ ss_bd[i]["Operator"] \notin out.selected_operators

\* C5: the filter, distance and sort steps applied to their own output, with
\* the same selections and user location, give the same rows in the same order.
C5_PipelineIdempotent ==
    out.op = "reapply" =>
        /\ out.exc = "none"
        /\ out.twice = out.once
        /\ out.twice_activities = out.once_activities

C5_Witness ==
    /\ out.op = "reapply"
    /\ out.user_loc # None
    /\ Len(out.once) = 2
    /\ out.once[1] # out.once[2]
    /\ out.once[1]["Distance (km)"] = out.once[2]["Distance (km)"]
    /\ out.once # ss_bd

\* C6: whatever passes have run, the stored bus_data is still the list the
\* rows were built as: same rows, same order, every 'Distance (km)' 'N/A'.
C6_BaseDatasetUntouched ==
    /\ ss_bd = BusDataLocal(ss_va)
    /\ \A i \in 1..Len(ss_bd) : ss_bd[i]["Distance (km)"] = NA

C6_Witness ==
    /\ out.op = "pass"
    /\ out.computed
    /\ out.exc = "none"
    /\ Len(out.filtered_bus_data) = 2
    /\ \A i \in 1..2 : IsNum(out.filtered_bus_data[i]["Distance (km)"])
    /\ out.filtered_bus_data[1]["Vehicle Ref"] = ss_bd[2]["Vehicle Ref"]
    /\ out.filtered_bus_data[1]["Vehicle Ref"] # ss_bd[1]["Vehicle Ref"]

Distances(rows) == {rows[i]["Distance (km)"] : i \in DOMAIN rows}
WithoutDistance(rows) == [i \in DOMAIN rows |-> [rows[i] EXCEPT !["Distance (km)"] = NA]]

FirstMatch(rows, vehicle_ref) ==
    rows[CHOOSE i \in DOMAIN rows :
            /\ rows[i]["Vehicle Ref"] = vehicle_ref
            /\ \A j \in 1..(i - 1) : rows[j]["Vehicle Ref"] # vehicle_ref]

\* C8: get_bus_details_by_ref gives (a copy of) the first row of the list
\* whose 'Vehicle Ref' is the reference, and None when no row has it.
C8_LookupFirstMatch ==
    out.op = "lookup" =>
        out.ret = IF \E i \in DOMAIN out.list : out.list[i]["Vehicle Ref"] = out.vehicle_ref
                  THEN FirstMatch(out.list, out.vehicle_ref)
                  ELSE None

---------------------------------------------------------------------------
(* Claims about the script (Spec) *)

\* The rerun ran the body of get_initial_data and the fetch or the
\* normalization raised in it.
FetchFailed ==
    /\ out.op = "render"
    /\ out.info.ran
    /\ \/ out.info.feed.exc # "none"
       \/ process_activities_to_data(out.info.feed.ret).exc # "none"

\* C9: after a refresh (first load or button) whose fetch or normalization
\* raised, vehicle_activities and bus_data are both empty, nothing was raised
\* out of get_initial_data and the rerun went on, on empty lists, to its end.
C9_FetchFailureGivesEmptyData ==
    FetchFailed =>
        /\ out.exc = "none"
        /\ ss_va = <<>>
        /\ ss_bd = <<>>
        /\ out.filtered_activities = <<>>
        /\ out.filtered_bus_data = <<>>
        /\ ~out.computed

C9_Witness ==
    /\ FetchFailed
    /\ out.info.refresh
    /\ out.info.feed.exc = "none"
    /\ Len(out.info.feed.ret) = 1
    /\ ss_va = <<>>
    /\ ss_bd = <<>>

\* C10 as stated: after a rerun whose postcode lookup failed the user
\* location is None, no distance was computed and the rerun reached its end.
C10_FailedLookupLeavesNone ==
    (out.op = "render" /\ out.info.lookup_failed) =>
        /\ out.info.geo = [exc |-> "none", ret |-> None]
        /\ ss_user_loc = None
        /\ ~out.computed
        /\ out.exc = "none"

\* C10 amended: a failed lookup returns None without raising and leaves the
\* user location what it was before the lookup (None, or the location an
\* earlier lookup stored); with no location no distance is computed; the
\* rerun reaches its end.
C10_FailedLookupKeepsLocation ==
    (out.op = "render" /\ out.info.lookup_failed) =>
        /\ out.info.geo = [exc |-> "none", ret |-> None]
        /\ ss_user_loc = out.info.loc_before
        /\ (ss_user_loc = None => ~out.computed)
        /\ out.exc = "none"

C10_Witness ==
    /\ out.op = "render"
    /\ out.info.lookup_failed
    /\ out.info.geo.ret = None
    /\ ss_user_loc \in UserLocs

====
